---- MODULE Spec2Model ----
(***************************************************************************)
(* State-machine model of src/main.py: the Telegram webhook of the natal   *)
(* chart bot, its per-chat session store and its input parsers.            *)
(*                                                                         *)
(* Line 306 of src/main.py is indented by 7 columns where the surrounding  *)
(* "if state == ..." cascade uses 4; the model reads that branch at the    *)
(* level of its siblings (lines 286, 296, 325, 334, 344).                  *)
(*                                                                         *)
(* Python strings are TLA+ strings, read character by character with      *)
(* SubSeq.  An optional value (None or a value) is a sequence of length    *)
(* 0 or 1.  The outbound transport (tg_send_message, tg_answer_callback)   *)
(* is taken to return: a sent message is recorded in the handler's log.    *)
(***************************************************************************)
EXTENDS Integers, Sequences, FiniteSets, TLC

VARIABLES OPENAI_API_KEY, SESSIONS, heap, handlers, done, call

vars == <<OPENAI_API_KEY, SESSIONS, heap, handlers, done, call>>

---------------------------------------------------------------------------
(* Strings *)

None == <<>>
Some(v) == <<v>>

Ch(s, i) == SubSeq(s, i, i)

IsSpace(c) == c \in {" ", "\t", "\n", "\r", "\f"}

IsDigit(c) == c \in {"0", "1", "2", "3", "4", "5", "6", "7", "8", "9"}

AllDigits(s) == \A i \in 1..Len(s) : IsDigit(Ch(s, i))

DigitVal(c) ==
  CASE c = "0" -> 0 [] c = "1" -> 1 [] c = "2" -> 2 [] c = "3" -> 3
    [] c = "4" -> 4 [] c = "5" -> 5 [] c = "6" -> 6 [] c = "7" -> 7
    [] c = "8" -> 8 [] c = "9" -> 9

DigitChar(n) == Ch("0123456789", n + 1)

RECURSIVE ToInt(_)
ToInt(s) ==
  IF Len(s) = 0 THEN 0
  ELSE 10 * ToInt(SubSeq(s, 1, Len(s) - 1)) + DigitVal(Ch(s, Len(s)))

\* f"{n:02d}" for 0 <= n
Fmt2(n) == IF n < 10 THEN "0" \o DigitChar(n)
           ELSE IF n < 100 THEN DigitChar(n \div 10) \o DigitChar(n % 10)
           ELSE DigitChar(n \div 100) \o DigitChar((n \div 10) % 10) \o DigitChar(n % 10)

\* "%04d" of a year 1..9999, as date.isoformat() writes it
Fmt4(n) == DigitChar(n \div 1000) \o DigitChar((n \div 100) % 10)
           \o DigitChar((n \div 10) % 10) \o DigitChar(n % 10)

\* str.strip()
Strip(s) ==
  LET keep == {i \in 1..Len(s) : ~IsSpace(Ch(s, i))}
  IN IF keep = {} THEN ""
     ELSE LET lo == CHOOSE i \in keep : \A j \in keep : i <= j
              hi == CHOOSE i \in keep : \A j \in keep : j <= i
          IN SubSeq(s, lo, hi)

UpperAlpha == "ABCDEFGHIJKLMNOPQRSTUVWXYZ"
LowerAlpha == "abcdefghijklmnopqrstuvwxyz"

LowerChar(c) ==
  IF \E i \in 1..26 : Ch(UpperAlpha, i) = c
  THEN Ch(LowerAlpha, CHOOSE i \in 1..26 : Ch(UpperAlpha, i) = c)
  ELSE c

\* str.lower()
RECURSIVE Lower(_)
Lower(s) == IF Len(s) = 0 THEN ""
            ELSE LowerChar(Ch(s, 1)) \o Lower(SubSeq(s, 2, Len(s)))

\* "c in s" for a one-character c
Contains(s, c) == \E i \in 1..Len(s) : Ch(s, i) = c

\* str.startswith
StartsWith(s, p) == Len(s) >= Len(p) /\ SubSeq(s, 1, Len(p)) = p

\* s.replace(a, b) for one-character a, b
RECURSIVE Replace(_, _, _)
Replace(s, a, b) ==
  IF Len(s) = 0 THEN ""
  ELSE (IF Ch(s, 1) = a THEN b ELSE Ch(s, 1)) \o Replace(SubSeq(s, 2, Len(s)), a, b)

\* s.split(sep) for a one-character sep: every piece, the empty ones included
RECURSIVE Split(_, _)
Split(s, sep) ==
  IF ~Contains(s, sep) THEN <<s>>
  ELSE LET i == CHOOSE k \in 1..Len(s) :
                  Ch(s, k) = sep /\ \A j \in 1..(k - 1) : Ch(s, j) # sep
       IN <<SubSeq(s, 1, i - 1)>> \o Split(SubSeq(s, i + 1, Len(s)), sep)

\* s.split(sep, 1)
Split1(s, sep) ==
  IF ~Contains(s, sep) THEN <<s>>
  ELSE LET i == CHOOSE k \in 1..Len(s) :
                  Ch(s, k) = sep /\ \A j \in 1..(k - 1) : Ch(s, j) # sep
       IN <<SubSeq(s, 1, i - 1), SubSeq(s, i + 1, Len(s))>>

---------------------------------------------------------------------------
(* Input parsers *)

IsLeap(y) == (y % 4 = 0 /\ y % 100 # 0) \/ y % 400 = 0

DaysInMonth(y, m) ==
  IF m = 2 THEN (IF IsLeap(y) THEN 29 ELSE 28)
  ELSE IF m \in {4, 6, 9, 11} THEN 30 ELSE 31

\* datetime(y, m, d): ValueError outside MINYEAR..MAXYEAR, 1..12, 1..days
DateOrRaise(y, m, d) ==
  IF y >= 1 /\ y <= 9999 /\ m >= 1 /\ m <= 12 /\ d >= 1 /\ d <= DaysInMonth(y, m)
  THEN [kind |-> "date", y |-> y, m |-> m, d |-> d]
  ELSE [kind |-> "raise", y |-> 0, m |-> 0, d |-> 0]

NoDate == [kind |-> "none", y |-> 0, m |-> 0, d |-> 0]

\* re.fullmatch(r"\d{4}-\d{2}-\d{2}", s)
MatchIso(s) ==
  /\ Len(s) = 10
  /\ AllDigits(SubSeq(s, 1, 4)) /\ Ch(s, 5) = "-"
  /\ AllDigits(SubSeq(s, 6, 7)) /\ Ch(s, 8) = "-"
  /\ AllDigits(SubSeq(s, 9, 10))

\* re.fullmatch(r"\d{2}\.\d{2}\.\d{4}", s)
MatchDotted(s) ==
  /\ Len(s) = 10
  /\ AllDigits(SubSeq(s, 1, 2)) /\ Ch(s, 3) = "."
  /\ AllDigits(SubSeq(s, 4, 5)) /\ Ch(s, 6) = "."
  /\ AllDigits(SubSeq(s, 7, 10))

parse_date(s0) ==
  LET s == Strip(s0)
  IN IF MatchIso(s)
     THEN DateOrRaise(ToInt(SubSeq(s, 1, 4)), ToInt(SubSeq(s, 6, 7)), ToInt(SubSeq(s, 9, 10)))
     ELSE IF MatchDotted(s)
     THEN DateOrRaise(ToInt(SubSeq(s, 7, 10)), ToInt(SubSeq(s, 4, 5)), ToInt(SubSeq(s, 1, 2)))
     ELSE NoDate

\* date.isoformat()
isoformat(dt) == Fmt4(dt.y) \o "-" \o Fmt2(dt.m) \o "-" \o Fmt2(dt.d)

NoTime == [kind |-> "none", h |-> 0, m |-> 0]

\* a time parser that takes the hour 24 and the minute 60 as well
parse_time_inclusive(s0) ==
  LET s == Strip(s0)
  IN IF Len(s) = 5 /\ AllDigits(SubSeq(s, 1, 2)) /\ Ch(s, 3) = ":"
        /\ AllDigits(SubSeq(s, 4, 5))
     THEN LET h == ToInt(Split(s, ":")[1])
              m == ToInt(Split(s, ":")[2])
          IN IF 0 <= h /\ h <= 24 /\ 0 <= m /\ m <= 60
             THEN [kind |-> "time", h |-> h, m |-> m]
             ELSE NoTime
     ELSE NoTime

parse_time(s0) ==
  LET s == Strip(s0)
  IN IF Len(s) = 5 /\ AllDigits(SubSeq(s, 1, 2)) /\ Ch(s, 3) = ":"
        /\ AllDigits(SubSeq(s, 4, 5))
     THEN LET h == ToInt(Split(s, ":")[1])
              m == ToInt(Split(s, ":")[2])
          IN IF 0 <= h /\ h <= 23 /\ 0 <= m /\ m <= 59
             THEN [kind |-> "time", h |-> h, m |-> m]
             ELSE NoTime
     ELSE NoTime

---------------------------------------------------------------------------
(* Sign placement.  deg is a Python float: a binary floating-point number  *)
(* whose every arithmetic result is rounded to the nearest number of the   *)
(* format, ties to even.  The model keeps that arithmetic at a reduced     *)
(* width: a number is an integer count of 2^-FracBits degree (the finest   *)
(* step of the format), and a result is rounded to Precision significant   *)
(* bits (a double has 53).  No infinity and no NaN is modelled.            *)

FracBits == 8

Precision == 12

RECURSIVE Pow2(_)
Pow2(n) == IF n = 0 THEN 1 ELSE 2 * Pow2(n - 1)

\* the float 1.0
Scale == Pow2(FracBits)

\* the number of bits of q >= 0
RECURSIVE BitLen(_)
BitLen(q) == IF q = 0 THEN 0 ELSE 1 + BitLen(q \div 2)

\* the spacing of the format's numbers around q >= 0
Ulp(q) == IF q < Pow2(Precision) THEN 1 ELSE Pow2(BitLen(q) - Precision)

\* n/d >= 0 rounded to the nearest number of the format, ties to even
RoundPos(n, d) ==
  LET u   == Ulp(n \div d)
      k   == n \div (d * u)
      rem == n - k * d * u
  IN IF 2 * rem > d * u \/ (2 * rem = d * u /\ k % 2 = 1) THEN (k + 1) * u ELSE k * u

FRound(n, d) == IF n >= 0 THEN RoundPos(n, d) ELSE -RoundPos(-n, d)

\* float addition, subtraction and division (by b > 0)
FAdd(a, b) == FRound(a + b, 1)
FSub(a, b) == FRound(a - b, 1)
FDiv(a, b) == FRound(a * Scale, b)

\* C fmod(a, b) for b > 0: exact, with the sign of a
Fmod(a, b) == IF a >= 0 THEN a % b ELSE -((-a) % b)

\* math.floor of a float, as a float
Floor(a) == (a \div Scale) * Scale

\* the float 30.0 that the int 30 of lines 162-163 is converted to
Thirty == 30 * Scale

\* deg // 30: float floor division
FloorDiv30(vx) ==
  LET mod  == Fmod(vx, Thirty)
      div0 == FDiv(FSub(vx, mod), Thirty)
      div  == IF mod # 0 /\ mod < 0 THEN FSub(div0, Scale) ELSE div0
      fl   == Floor(div)
  IN IF div # 0
     THEN (IF 2 * FSub(div, fl) > Scale THEN FAdd(fl, Scale) ELSE fl)
     ELSE 0

\* deg % 30: float remainder
Rem30(vx) ==
  LET mod == Fmod(vx, Thirty)
  IN IF mod # 0 /\ mod < 0 THEN FAdd(mod, Thirty) ELSE mod

signs == <<"Aries", "Taurus", "Gemini", "Cancer", "Leo", "Virgo", "Libra",
           "Scorpio", "Sagittarius", "Capricorn", "Aquarius", "Pisces">>

deg_to_sign(deg) ==
  LET idx    == (FloorDiv30(deg) \div Scale) % 12
      within == Rem30(deg)
  IN [sign |-> signs[idx + 1], within |-> within]

---------------------------------------------------------------------------
(* The updates the model delivers, and what the webhook's pure steps make  *)
(* of each text: computed once per text, looked up by the actions.         *)

Users == {1}

Texts == {"/start", "/reset", "Reset", "  ", "2024-02-29", "29.02.2024",
          "2024-13-40", "07:30", "Berlin, Germany", "Berlin", "Europe/Berlin",
          "Mars/Phobos"}

CallbackData == {"topic:general", "topic:bogus", "noop"}

IsStart(text) == Lower(text) \in {"/start", "start"}
IsReset(text) == Lower(text) \in {"/reset", "reset"}

\* the split without the "/" to "," normalisation, on "/" alone
PartsSlashOnly(text) ==
  LET raw == Split(text, "/")
  IN SelectSeq([i \in 1..Len(raw) |-> Strip(raw[i])], LAMBDA p : p # "")

\* [p.strip() for p in normalized.split(",") if p.strip()]
Parts(text) ==
  LET raw == Split(Replace(text, "/", ","), ",")
  IN SelectSeq([i \in 1..Len(raw) |-> Strip(raw[i])], LAMBDA p : p # "")

\* the check of line 335, negated: the text is taken as a timezone
TzAccepted(text) == Contains(text, "/") /\ ~Contains(text, " ")

\* line 250, and the pure calls of lines 257-338 on its result
Read(raw) ==
  LET text == Strip(raw)
  IN [text  |-> text,
      start |-> IsStart(text),
      reset |-> IsReset(text),
      date  |-> parse_date(text),
      time  |-> parse_time(text),
      parts |-> Parts(text),
      strip |-> Strip(text),
      tz    |-> TzAccepted(text)]

\* the texts delivered to the place and timezone steps on their own
StepTexts == {"Berlin, Germany", "Berlin / Germany", "Berlin,Germany,Europe",
              "Berlin", "Berlin,", "/Berlin", ",", "New York",
              "Europe/Berlin", " Europe/Berlin ", "America/Argentina/Salta",
              "Europe/ Berlin", "Europe/\tBerlin", "UTC"}

TextTable == [raw \in Texts \cup StepTexts |-> Read(raw)]

T(raw) == TextTable[raw]

---------------------------------------------------------------------------
(* Sessions.  SESSIONS maps a chat id to a reference into heap, where the   *)
(* session dicts live: two names for one dict see each other's writes, and  *)
(* a dict that SESSIONS no longer names is still written through the        *)
(* reference a suspended handler holds.                                     *)

States == {"ASK_DATE", "ASK_TIME", "ASK_CITY", "ASK_COUNTRY", "ASK_TZ",
           "ASK_TOPIC", "ASK_FREEFORM"}

new_session ==
  [state |-> "ASK_DATE", date |-> None, time |-> None, city |-> None,
   country |-> None, tz |-> None, lat |-> None, lon |-> None, topic |-> None]

EmptyMap == [x \in {} |-> x]

Put(f, k, v) == [x \in DOMAIN f \cup {k} |-> IF x = k THEN v ELSE f[x]]

Restrict(f, D) == [x \in DOMAIN f \cap D |-> f[x]]

\* the number of handlers that may be suspended at once
MaxInflight == 2

Slots == 1..MaxInflight

Idle == [pc |-> "idle"]

Busy(hs) == {h \in DOMAIN hs : hs[h].pc # "idle"}

\* the dicts still referenced, by SESSIONS or by a suspended handler's sess
Live(S, hs) == {S[c] : c \in DOMAIN S} \cup {hs[h].sess : h \in Busy(hs)}

\* a new_session that hands out one dict, the same at every call
AllocShared(S, hs) == 1

\* a reference for a new dict: one that names no live dict
Alloc(S, hs) ==
  LET live == Live(S, hs)
  IN CHOOSE n \in 1..(Cardinality(live) + 1) :
       n \notin live /\ \A k \in 1..(n - 1) : k \in live

\* SESSIONS.get(chat_id)
HasSession(c) == c \in DOMAIN SESSIONS

Stored(c) == heap[SESSIONS[c]]

\* the response to the update whose handler ended last: the calls made and
\* messages sent while it was handled, and how the handler ended ("ok":
\* {"ok": True}; "error": an exception left the handler)
Response(c, from, log, result) ==
  [chat |-> c, from |-> from, log |-> log, result |-> result]

NoResponse == Response(None, "", <<>>, "none")

\* the state a handler leaves behind; dicts nothing refers to are dropped
Commit(S, H, hs, d) ==
  /\ SESSIONS' = S
  /\ heap' = Restrict(H, Live(S, hs))
  /\ handlers' = hs
  /\ done' = d
  /\ UNCHANGED <<OPENAI_API_KEY, call>>

\* the state name a handler starts from, for the response record
FromOf(c) == IF HasSession(c) THEN Stored(c).state ELSE "NONE"

---------------------------------------------------------------------------
(* The webhook: button presses *)

Callback(c, data) ==
  LET fresh == ~HasSession(c)
      id    == IF fresh THEN Alloc(SESSIONS, handlers) ELSE SESSIONS[c]
      H0    == IF fresh THEN Put(heap, id, new_session) ELSE heap
      S1    == Put(SESSIONS, c, id)
  IN IF StartsWith(data, "topic:")
     THEN Commit(S1,
                 [H0 EXCEPT ![id] = [@ EXCEPT !.topic = Some(Split1(data, ":")[2]),
                                              !.state = "ASK_FREEFORM"]],
                 handlers,
                 Response(Some(c), FromOf(c), <<"answer_callback", "send:ask_question">>, "ok"))
     ELSE Commit(S1, H0, handlers,
                 Response(Some(c), FromOf(c), <<"answer_callback">>, "ok"))

\* an update that is neither a button press nor a message
OtherUpdate ==
  Commit(SESSIONS, heap, handlers, Response(None, "", <<>>, "ok"))

---------------------------------------------------------------------------
(* The webhook: text messages *)

\* a message without text, or with whitespace only
MessageEmpty(c, raw) ==
  /\ T(raw).text = ""
  /\ Commit(SESSIONS, heap, handlers,
            Response(Some(c), FromOf(c), <<"send:text_please">>, "ok"))

\* a reset that rewinds the state of the stored dict and keeps its data
ReplacedKeepsData(c) ==
  IF HasSession(c)
  THEN [S |-> SESSIONS,
        H |-> [heap EXCEPT ![SESSIONS[c]] = [@ EXCEPT !.state = "ASK_DATE"]]]
  ELSE LET id == Alloc(SESSIONS, handlers)
       IN [S |-> Put(SESSIONS, c, id), H |-> Put(heap, id, new_session)]

\* a reset that empties the stored dict where it is, without a new dict
ReplacedInPlace(c) ==
  IF HasSession(c)
  THEN [S |-> SESSIONS, H |-> [heap EXCEPT ![SESSIONS[c]] = new_session]]
  ELSE LET id == Alloc(SESSIONS, handlers)
       IN [S |-> Put(SESSIONS, c, id), H |-> Put(heap, id, new_session)]

\* SESSIONS[chat_id] = new_session()
Replaced(c) ==
  LET S0 == Restrict(SESSIONS, DOMAIN SESSIONS \ {c})
      id == Alloc(S0, handlers)
  IN [S |-> Put(SESSIONS, c, id), H |-> Put(heap, id, new_session)]

CmdStart(c, raw) ==
  /\ T(raw).text # "" /\ T(raw).start
  /\ Commit(Replaced(c).S, Replaced(c).H, handlers,
            Response(Some(c), FromOf(c), <<"send:start">>, "ok"))

CmdReset(c, raw) ==
  /\ T(raw).text # "" /\ ~T(raw).start /\ T(raw).reset
  /\ Commit(Replaced(c).S, Replaced(c).H, handlers,
            Response(Some(c), FromOf(c), <<"send:reset">>, "ok"))

\* a text that reaches "sess = SESSIONS.get(chat_id)"
Plain(raw) == T(raw).text # "" /\ ~T(raw).start /\ ~T(raw).reset

FirstContact(c, raw) ==
  /\ Plain(raw) /\ ~HasSession(c)
  /\ Commit(Replaced(c).S, Replaced(c).H, handlers,
            Response(Some(c), "NONE", <<"send:begin">>, "ok"))

\* a text that reaches "state = sess['state']" with that state
InState(c, raw, st) == Plain(raw) /\ HasSession(c) /\ Stored(c).state = st

\* the handler's writes to its session dict, and its reply
Step(c, upd, log, result) ==
  Commit(SESSIONS, [heap EXCEPT ![SESSIONS[c]] = upd], handlers,
         Response(Some(c), Stored(c).state, log, result))

AskDate(c, raw) ==
  /\ InState(c, raw, "ASK_DATE")
  /\ LET dt == T(raw).date
     IN CASE dt.kind = "raise" -> Step(c, Stored(c), <<>>, "error")
          [] dt.kind = "none" -> Step(c, Stored(c), <<"send:bad_date">>, "ok")
          [] dt.kind = "date" ->
               Step(c, [Stored(c) EXCEPT !.date = Some(isoformat(dt)),
                                         !.state = "ASK_TIME"],
                    <<"send:ask_time">>, "ok")

AskTime(c, raw) ==
  /\ InState(c, raw, "ASK_TIME")
  /\ LET tm == T(raw).time
     IN IF tm.kind = "none"
        THEN Step(c, Stored(c), <<"send:bad_time">>, "ok")
        ELSE Step(c, [Stored(c) EXCEPT !.time = Some(Fmt2(tm.h) \o ":" \o Fmt2(tm.m)),
                                       !.state = "ASK_CITY"],
                  <<"send:ask_city">>, "ok")

AskCity(c, raw) ==
  /\ InState(c, raw, "ASK_CITY")
  /\ LET parts == T(raw).parts
     IN IF Len(parts) >= 2
        THEN Step(c, [Stored(c) EXCEPT !.city = Some(parts[1]),
                                       !.country = Some(parts[2]),
                                       !.state = "ASK_TZ"],
                  <<"send:ask_tz">>, "ok")
        ELSE Step(c, [Stored(c) EXCEPT !.city = Some(T(raw).strip),
                                       !.state = "ASK_COUNTRY"],
                  <<"send:ask_country">>, "ok")

AskCountry(c, raw) ==
  /\ InState(c, raw, "ASK_COUNTRY")
  /\ Step(c, [Stored(c) EXCEPT !.country = Some(T(raw).strip),
                               !.state = "ASK_TZ"],
          <<"send:ask_tz">>, "ok")

AskTz(c, raw) ==
  /\ InState(c, raw, "ASK_TZ")
  /\ IF ~T(raw).tz
     THEN Step(c, Stored(c), <<"send:bad_tz">>, "ok")
     ELSE Step(c, [Stored(c) EXCEPT !.tz = Some(T(raw).strip),
                                    !.state = "ASK_TOPIC"],
               <<"send:ask_topic">>, "ok")

\* no branch of the cascade takes a text in ASK_TOPIC
Fallback(c, raw) ==
  /\ Plain(raw) /\ HasSession(c)
  /\ Stored(c).state \notin {"ASK_DATE", "ASK_TIME", "ASK_CITY", "ASK_COUNTRY",
                             "ASK_TZ", "ASK_FREEFORM"}
  /\ Step(c, Stored(c), <<"send:lost">>, "ok")

---------------------------------------------------------------------------
(* The webhook: a question in ASK_FREEFORM.  The handler is suspended at   *)
(* each await after which it still reads or writes its session dict:       *)
(* geocode_city (351), the miss notice (355), call_openai (394) and the    *)
(* answer (395).                                                           *)

FreeformNoKey(c, raw) ==
  /\ InState(c, raw, "ASK_FREEFORM")
  /\ OPENAI_API_KEY = ""
  /\ Step(c, Stored(c), <<"send:no_key">>, "ok")

Suspended(c, id, pc, log) == [pc |-> pc, chat |-> c, sess |-> id, log |-> log]

FreeformBegin(c, raw, h) ==
  /\ InState(c, raw, "ASK_FREEFORM")
  /\ OPENAI_API_KEY # ""
  /\ handlers[h] = Idle
  /\ Commit(SESSIONS, heap,
            [handlers EXCEPT ![h] = Suspended(c, SESSIONS[c], "geocode", <<>>)],
            done)

\* the timezone identifiers ZoneInfo finds
KnownZones == {"Europe/Berlin", "UTC"}

\* lines 365-367: the stored date and time read back into datetime(...);
\* TRUE when that raises (a field is None, or the numbers make no datetime)
DtLocalRaises(d) ==
  \/ d.date = None
  \/ d.time = None
  \/ LET ymd == Split(d.date[1], "-")
         hm  == Split(d.time[1], ":")
     IN \/ Len(ymd) # 3 \/ Len(hm) # 2
        \/ \E i \in 1..Len(ymd) : ymd[i] = "" \/ ~AllDigits(ymd[i])
        \/ \E i \in 1..Len(hm) : hm[i] = "" \/ ~AllDigits(hm[i])
        \/ DateOrRaise(ToInt(ymd[1]), ToInt(ymd[2]), ToInt(ymd[3])).kind = "raise"
        \/ ToInt(hm[1]) > 23 \/ ToInt(hm[2]) > 59

\* compute_chart and chart_to_text: "ok", or "fail" when they raise.  An
\* identifier ZoneInfo does not find always raises; the ephemeris may raise.
ChartOutcomes(d) ==
  IF d.tz # None /\ d.tz[1] \in KnownZones THEN {"ok", "fail"} ELSE {"fail"}

\* what geocode_city hands back to line 351: None (nothing found, or an
\* exception caught at 352) or a pair of coordinates
Coords == {None, <<52, 13>>}

Finished(h, H, log, result) ==
  Commit(SESSIONS, H, [handlers EXCEPT ![h] = Idle],
         Response(Some(handlers[h].chat), "ASK_FREEFORM", log, result))

Resumed(h, H, pc, log) ==
  Commit(SESSIONS, H, [handlers EXCEPT ![h] = [@ EXCEPT !.pc = pc, !.log = log]], done)

\* a chart failure that sends the session back to the timezone step
GeocodeReturnRepairs(h, coords, chart) ==
  /\ handlers[h].pc = "geocode"
  /\ LET id  == handlers[h].sess
         log == handlers[h].log \o <<"geocode">>
         H1  == [heap EXCEPT ![id] = [@ EXCEPT !.lat = Some(coords[1]),
                                              !.lon = Some(coords[2])]]
     IN IF coords = None
        THEN Resumed(h, heap, "send_miss", log) /\ chart = "ok"
        ELSE IF DtLocalRaises(heap[id])
        THEN Finished(h, H1, log, "error") /\ chart = "ok"
        ELSE /\ chart \in ChartOutcomes(heap[id])
             /\ IF chart = "fail"
                THEN Finished(h, [H1 EXCEPT ![id] = [@ EXCEPT !.state = "ASK_TZ", !.tz = None]],
                              log \o <<"chart", "send:chart_error">>, "ok")
                ELSE Resumed(h, H1, "openai", log \o <<"chart">>)

GeocodeReturn(h, coords, chart) ==
  /\ handlers[h].pc = "geocode"
  /\ LET id  == handlers[h].sess
         log == handlers[h].log \o <<"geocode">>
         H1  == [heap EXCEPT ![id] = [@ EXCEPT !.lat = Some(coords[1]),
                                              !.lon = Some(coords[2])]]
     IN IF coords = None
        THEN Resumed(h, heap, "send_miss", log) /\ chart = "ok"
        ELSE IF DtLocalRaises(heap[id])
        THEN Finished(h, H1, log, "error") /\ chart = "ok"
        ELSE /\ chart \in ChartOutcomes(heap[id])
             /\ IF chart = "fail"
                THEN Finished(h, H1, log \o <<"chart", "send:chart_error">>, "ok")
                ELSE Resumed(h, H1, "openai", log \o <<"chart">>)

\* a regression that drops the place of the failed attempt at once
SendMissClearsPlace(h) ==
  /\ handlers[h].pc = "send_miss"
  /\ Finished(h, [heap EXCEPT ![handlers[h].sess] =
                    [@ EXCEPT !.state = "ASK_CITY", !.city = None, !.country = None]],
              handlers[h].log \o <<"send:geo_miss">>, "ok")

SendMissReturn(h) ==
  /\ handlers[h].pc = "send_miss"
  /\ Finished(h, [heap EXCEPT ![handlers[h].sess] = [@ EXCEPT !.state = "ASK_CITY"]],
              handlers[h].log \o <<"send:geo_miss">>, "ok")

OpenaiReturn(h, out) ==
  /\ handlers[h].pc = "openai"
  /\ IF out = "raise"
     THEN Finished(h, heap, handlers[h].log \o <<"openai">>, "error")
     ELSE Resumed(h, heap, "send_answer", handlers[h].log \o <<"openai">>)

\* an answer after which the session starts over with a new dict's data
SendAnswerForgets(h) ==
  /\ handlers[h].pc = "send_answer"
  /\ Finished(h, [heap EXCEPT ![handlers[h].sess] = [new_session EXCEPT !.state = "ASK_TOPIC"]],
              handlers[h].log \o <<"send:answer", "send:ask_topic_again">>, "ok")

\* an answer that is dropped when the dict has left ASK_FREEFORM meanwhile
SendAnswerChecksState(h) ==
  /\ handlers[h].pc = "send_answer"
  /\ IF heap[handlers[h].sess].state = "ASK_FREEFORM"
     THEN Finished(h, [heap EXCEPT ![handlers[h].sess] = [@ EXCEPT !.state = "ASK_TOPIC"]],
                   handlers[h].log \o <<"send:answer", "send:ask_topic_again">>, "ok")
     ELSE Finished(h, heap, handlers[h].log, "ok")

SendAnswerReturn(h) ==
  /\ handlers[h].pc = "send_answer"
  /\ Finished(h, [heap EXCEPT ![handlers[h].sess] = [@ EXCEPT !.state = "ASK_TOPIC"]],
              handlers[h].log \o <<"send:answer", "send:ask_topic_again">>, "ok")

\* the message branch of the webhook, whole
Message(c, raw, h) ==
  \/ MessageEmpty(c, raw)
  \/ CmdStart(c, raw)
  \/ CmdReset(c, raw)
  \/ FirstContact(c, raw)
  \/ AskDate(c, raw)
  \/ AskTime(c, raw)
  \/ AskCity(c, raw)
  \/ AskCountry(c, raw)
  \/ AskTz(c, raw)
  \/ FreeformNoKey(c, raw)
  \/ FreeformBegin(c, raw, h)
  \/ Fallback(c, raw)

---------------------------------------------------------------------------
(* The updates the model delivers *)

NoCall == [fn |-> "", arg |-> "", ret |-> None]

Init ==
  /\ OPENAI_API_KEY \in {"", "sk-test"}
  /\ SESSIONS = EmptyMap
  /\ heap = EmptyMap
  /\ handlers = [h \in Slots |-> Idle]
  /\ done = NoResponse
  /\ call = NoCall

\* no handler is suspended: updates are handled one after the other
Serial == Busy(handlers) = {}

Next ==
  \/ Serial /\ \E c \in Users, data \in CallbackData : Callback(c, data)
  \/ Serial /\ \E c \in Users, raw \in Texts : Message(c, raw, 1)
  \/ Serial /\ OtherUpdate
  \/ \E h \in Slots, coords \in Coords, chart \in {"ok", "fail"} : GeocodeReturn(h, coords, chart)
  \/ \E h \in Slots : SendMissReturn(h)
  \/ \E h \in Slots, out \in {"ok", "raise"} : OpenaiReturn(h, out)
  \/ \E h \in Slots : SendAnswerReturn(h)

Spec == Init /\ [][Next]_vars

---------------------------------------------------------------------------
(* Updates handled concurrently: the event loop runs another handler while *)
(* one is suspended at an await.  Chat 1 has been through the collection   *)
(* (date, time, "Berlin, Germany", "Europe/Berlin") and is in ASK_TOPIC.   *)

ConcUsers == {1}

ConcTexts == {"/start", "/reset", "Berlin"}

ConcCallbackData == {"topic:general"}

InitConc ==
  /\ OPENAI_API_KEY = "sk-test"
  /\ SESSIONS = Put(EmptyMap, 1, 1)
  /\ heap = Put(EmptyMap, 1, [new_session EXCEPT !.date = Some("2024-02-29"),
                                                 !.time = Some("07:30"),
                                                 !.city = Some("Berlin"),
                                                 !.country = Some("Germany"),
                                                 !.tz = Some("Europe/Berlin"),
                                                 !.state = "ASK_TOPIC"])
  /\ handlers = [h \in Slots |-> Idle]
  /\ done = Response(Some(1), "ASK_TZ", <<"send:ask_topic">>, "ok")
  /\ call = NoCall

\* the slot a handler that is about to be suspended takes: the first idle
FirstFree ==
  IF \E h \in Slots : handlers[h] = Idle
  THEN CHOOSE h \in Slots : handlers[h] = Idle /\ \A k \in 1..(h - 1) : handlers[k] # Idle
  ELSE 1

\* the updates of one chat, with up to MaxInflight questions in flight
NextConc ==
  \/ \E c \in ConcUsers, data \in ConcCallbackData : Callback(c, data)
  \/ \E c \in ConcUsers, raw \in ConcTexts : Message(c, raw, FirstFree)
  \/ \E h \in Slots, coords \in Coords, chart \in {"ok", "fail"} : GeocodeReturn(h, coords, chart)
  \/ \E h \in Slots : SendMissReturn(h)
  \/ \E h \in Slots, out \in {"ok", "raise"} : OpenaiReturn(h, out)
  \/ \E h \in Slots : SendAnswerReturn(h)

SpecConc == InitConc /\ [][NextConc]_vars

\* the updates of two chats, chat 2 not seen before, with one question in
\* flight at a time
TwoUsers == {1, 2}

NextTwo ==
  \/ \E c \in TwoUsers, data \in ConcCallbackData : Callback(c, data)
  \/ \E c \in TwoUsers, raw \in ConcTexts :
       Message(c, raw, FirstFree) /\ Cardinality(Busy(handlers')) <= 1
  \/ \E h \in Slots, coords \in Coords, chart \in {"ok", "fail"} : GeocodeReturn(h, coords, chart)
  \/ \E h \in Slots : SendMissReturn(h)
  \/ \E h \in Slots, out \in {"ok", "raise"} : OpenaiReturn(h, out)
  \/ \E h \in Slots : SendAnswerReturn(h)

SpecTwo == InitConc /\ [][NextTwo]_vars

---------------------------------------------------------------------------
(* The place, country and timezone steps on their own: a session that has  *)
(* its date and time, as AskTime leaves it, is taken through lines 306-341 *)
(* with each of StepTexts.                                                 *)

InitStep ==
  /\ OPENAI_API_KEY \in {"", "sk-test"}
  /\ SESSIONS = Put(EmptyMap, 1, 1)
  /\ heap = Put(EmptyMap, 1, [new_session EXCEPT !.date = Some("2024-02-29"),
                                                 !.time = Some("07:30"),
                                                 !.state = "ASK_CITY"])
  /\ handlers = [h \in Slots |-> Idle]
  /\ done = Response(Some(1), "ASK_TIME", <<"send:ask_city">>, "ok")
  /\ call = NoCall

NextStep ==
  \/ \E c \in Users, raw \in StepTexts : AskCity(c, raw)
  \/ \E c \in Users, raw \in StepTexts : AskCountry(c, raw)
  \/ \E c \in Users, raw \in StepTexts : AskTz(c, raw)

SpecStep == InitStep /\ [][NextStep]_vars

---------------------------------------------------------------------------
(* The parsers on their own: a call is drawn, then applied.                *)

\* the dates written out as input, in both forms
DateCases ==
  [form : {"iso", "dotted"}, y : {0, 1, 1900, 2023, 2024},
   m : {0, 1, 2, 4, 12, 13}, d : {0, 1, 28, 29, 30, 31, 32, 40}]

Render(g) ==
  IF g.form = "iso" THEN Fmt4(g.y) \o "-" \o Fmt2(g.m) \o "-" \o Fmt2(g.d)
  ELSE Fmt2(g.d) \o "." \o Fmt2(g.m) \o "." \o Fmt4(g.y)

\* texts of neither form
NotDates ==
  {"", "2024-2-29", "2024/02/29", "29-02-2024", "2024.02.29", "20240229",
   "2024-02-29x", "abcd-ef-gh", "29.02.24", "2024-02-29 12:00", "07:30", "Berlin"}

\* a date with whitespace around it
PaddedDates == {" 2024-02-29", "29.02.2024 "}

DateTexts == {Render(g) : g \in DateCases} \cup NotDates \cup PaddedDates

\* the times written out as input
TimeCases == [h : {0, 7, 9, 10, 23, 24, 25, 99}, m : {0, 5, 30, 59, 60, 61, 99}]

RenderTime(g) == Fmt2(g.h) \o ":" \o Fmt2(g.m)

\* texts that are no HH:MM
NotTimes ==
  {"", "7:30", "07:3", "007:30", "07:030", "07-30", "07.30", "0730", "07:30:00",
   "ab:cd", "0a:30", "07:3x", "07 :30", "7:30 pm", "-7:30", "2024-02-29", "Berlin"}

\* a time with whitespace around it
PaddedTimes == {" 07:30", "07:30 ", "\t07:30\n"}

TimeTexts == {RenderTime(g) : g \in TimeCases} \cup NotTimes \cup PaddedTimes

\* the largest longitude drawn, in degrees, either side of zero
MaxDeg == 800

\* the longitudes drawn: the numbers of the format next to zero, and the
\* whole and half degrees up to MaxDeg
DegInputs ==
  {v \in ((0 - Scale) \div 4)..(Scale \div 4) : FRound(v, 1) = v}
  \cup {v \in {d * Scale + f : d \in (0 - MaxDeg)..MaxDeg, f \in {0, Scale \div 2}} :
          FRound(v, 1) = v}

InitPure ==
  /\ OPENAI_API_KEY = ""
  /\ SESSIONS = EmptyMap
  /\ heap = EmptyMap
  /\ handlers = [h \in Slots |-> Idle]
  /\ done = NoResponse
  /\ call \in {[fn |-> "parse_date", arg |-> a, ret |-> None] : a \in DateTexts}
            \cup {[fn |-> "parse_time", arg |-> a, ret |-> None] : a \in TimeTexts}
            \cup {[fn |-> "deg_to_sign", arg |-> v, ret |-> None] : v \in DegInputs}

ApplyParseDate ==
  /\ call.fn = "parse_date" /\ call.ret = None
  /\ call' = [call EXCEPT !.ret = Some(parse_date(call.arg))]
  /\ UNCHANGED <<OPENAI_API_KEY, SESSIONS, heap, handlers, done>>

ApplyParseTime ==
  /\ call.fn = "parse_time" /\ call.ret = None
  /\ call' = [call EXCEPT !.ret = Some(parse_time(call.arg))]
  /\ UNCHANGED <<OPENAI_API_KEY, SESSIONS, heap, handlers, done>>

ApplyDegToSign ==
  /\ call.fn = "deg_to_sign" /\ call.ret = None
  /\ call' = [call EXCEPT !.ret = Some(deg_to_sign(call.arg))]
  /\ UNCHANGED <<OPENAI_API_KEY, SESSIONS, heap, handlers, done>>

NextPure == ApplyParseDate \/ ApplyParseTime \/ ApplyDegToSign

SpecPure == InitPure /\ [][NextPure]_vars

---------------------------------------------------------------------------
(* Properties *)

\* a session dict with state st and no data field set
Blank(d, st) ==
  /\ d.state = st
  /\ d.date = None /\ d.time = None /\ d.city = None /\ d.country = None
  /\ d.tz = None /\ d.lat = None /\ d.lon = None /\ d.topic = None

\* C1: whatever the state and the data collected, handling a /start or /reset
\* text leaves the chat's stored session in ASK_DATE with every data field
\* unset.
C1_ResetClearsSession ==
  [][\A c \in Users, raw \in {"/start", "/reset"} :
       Message(c, raw, 1) => (c \in DOMAIN SESSIONS' /\ Blank(heap'[SESSIONS'[c]], "ASK_DATE"))]_vars

\* a /reset was handled in ASK_FREEFORM, with data collected, and the stored
\* session is blank
C1_Witness ==
  /\ done.chat = Some(1) /\ done.log = <<"send:reset">> /\ done.from = "ASK_FREEFORM"
  /\ HasSession(1) /\ Blank(Stored(1), "ASK_DATE")

\* C2: a session is in ASK_FREEFORM only if date, time, city, country,
\* timezone and topic are all set, and a field is set only when the fields
\* collected before it are set (date, time, city, country, timezone, topic).
C2_FieldsInCollectionOrder ==
  \A c \in DOMAIN SESSIONS :
    LET d == Stored(c)
    IN /\ d.state = "ASK_FREEFORM" =>
            /\ d.date # None /\ d.time # None /\ d.city # None
            /\ d.country # None /\ d.tz # None /\ d.topic # None
       /\ d.time # None => d.date # None
       /\ d.city # None => d.time # None
       /\ d.country # None => d.city # None
       /\ d.tz # None => d.country # None
       /\ d.topic # None => d.tz # None

\* the edges of the collection flow
FlowEdges ==
  {<<"ASK_DATE", "ASK_TIME">>, <<"ASK_TIME", "ASK_CITY">>,
   <<"ASK_CITY", "ASK_COUNTRY">>, <<"ASK_CITY", "ASK_TZ">>,
   <<"ASK_COUNTRY", "ASK_TZ">>, <<"ASK_TZ", "ASK_TOPIC">>,
   <<"ASK_TOPIC", "ASK_FREEFORM">>, <<"ASK_FREEFORM", "ASK_TOPIC">>}

\* C3: every change of a stored session's state follows an edge of the flow,
\* or is a /start or /reset (to ASK_DATE), or is the regression after a
\* geocoding miss (ASK_FREEFORM to ASK_CITY); a topic button press moves the
\* session to ASK_FREEFORM only from ASK_TOPIC.
C3_StateChangesFollowFlow ==
  [][\A c \in DOMAIN SESSIONS \cap DOMAIN SESSIONS' :
       LET old == heap[SESSIONS[c]].state
           new == heap'[SESSIONS'[c]].state
       IN /\ old # new =>
               \/ <<old, new>> \in FlowEdges
               \/ new = "ASK_DATE" /\ \E raw \in Texts : CmdStart(c, raw) \/ CmdReset(c, raw)
               \/ <<old, new>> = <<"ASK_FREEFORM", "ASK_CITY">> /\ \E h \in Slots : SendMissReturn(h)
          /\ (old # new /\ \E data \in CallbackData : Callback(c, data))
               => <<old, new>> = <<"ASK_TOPIC", "ASK_FREEFORM">>]_vars

\* the states whose text is validated before it is taken
ValidatedStates == {"ASK_DATE", "ASK_TIME", "ASK_CITY", "ASK_COUNTRY", "ASK_TZ"}

\* C4: in ASK_DATE, ASK_TIME, ASK_CITY, ASK_COUNTRY and ASK_TZ a text that does
\* not move the session on (the validator did not accept it) leaves the state
\* and every data field as they were and is answered with a message to the
\* user, 2024-13-40 in ASK_DATE included.
C4_RejectedTextIsAnswered ==
  [][\A c \in DOMAIN SESSIONS, raw \in Texts :
       (/\ Stored(c).state \in ValidatedStates
        /\ ~T(raw).start /\ ~T(raw).reset
        /\ Message(c, raw, 1)
        /\ heap'[SESSIONS'[c]].state = Stored(c).state)
       => /\ heap'[SESSIONS'[c]] = Stored(c)
          /\ done'.result = "ok"
          /\ \E i \in 1..Len(done'.log) : StartsWith(done'.log[i], "send:")]_vars

\* C10: for a chat with no stored session, the first button press or text
\* message creates a session that is in ASK_DATE with every data field unset
\* once the event is handled.
C10_FirstContactStartsBlank ==
  [][\A c \in Users \ DOMAIN SESSIONS :
       (\/ \E data \in CallbackData : Callback(c, data)
        \/ \E raw \in Texts : T(raw).text # "" /\ Message(c, raw, 1))
       => c \in DOMAIN SESSIONS' /\ Blank(heap'[SESSIONS'[c]], "ASK_DATE")]_vars

\* a year, month and day that name a day of the calendar
IsCalendarDate(y, m, d) ==
  y \in 1..9999 /\ m \in 1..12 /\ d \in 1..DaysInMonth(y, m)

\* C5: the date parser never raises; a calendar date written as YYYY-MM-DD or
\* as DD.MM.YYYY parses to that date, the same for both forms; every other
\* string, 2024-13-40 and a day 32 included, returns the invalid sentinel.
C5_ParseDateTotal ==
  (call.fn = "parse_date" /\ call.ret # None) =>
    LET r == call.ret[1]
    IN /\ r.kind # "raise"
       /\ \A g \in DateCases :
            call.arg = Render(g) =>
              IF IsCalendarDate(g.y, g.m, g.d)
              THEN r = [kind |-> "date", y |-> g.y, m |-> g.m, d |-> g.d]
              ELSE r.kind = "none"
       /\ call.arg \in NotDates => r.kind = "none"
       /\ call.arg \in PaddedDates => r = [kind |-> "date", y |-> 2024, m |-> 2, d |-> 29]

\* a session dict that has not been geocoded
Sess(st, date, time, city, country, tz, topic) ==
  [state |-> st, date |-> date, time |-> time, city |-> city,
   country |-> country, tz |-> tz, lat |-> None, lon |-> None, topic |-> topic]

C6_AfterDate == Sess("ASK_TIME", Some("2024-02-29"), None, None, None, None, None)
C6_AfterTime == Sess("ASK_CITY", Some("2024-02-29"), Some("07:30"), None, None, None, None)
C6_AfterPlace ==
  Sess("ASK_TZ", Some("2024-02-29"), Some("07:30"), Some("Berlin"), Some("Germany"), None, None)
C6_AfterTz ==
  Sess("ASK_TOPIC", Some("2024-02-29"), Some("07:30"), Some("Berlin"), Some("Germany"),
       Some("Europe/Berlin"), None)
C6_AfterTopic ==
  Sess("ASK_FREEFORM", Some("2024-02-29"), Some("07:30"), Some("Berlin"), Some("Germany"),
       Some("Europe/Berlin"), Some("general"))

\* C6: from a blank session in ASK_DATE, a valid date, a valid time, the text
\* "Berlin, Germany", the text "Europe/Berlin" and a topic button press each
\* move the session one state on, through ASK_TIME, ASK_CITY, ASK_TZ and
\* ASK_TOPIC to ASK_FREEFORM, never through ASK_COUNTRY, and leave date, time,
\* city Berlin, country Germany, timezone and topic set.
C6_FiveAcceptedTransitions ==
  [][\A c \in DOMAIN SESSIONS :
       LET old == Stored(c)
           new == heap'[SESSIONS'[c]]
       IN /\ (Blank(old, "ASK_DATE")
              /\ \E raw \in {"2024-02-29", "29.02.2024"} : Message(c, raw, 1))
             => new = C6_AfterDate
          /\ (old = C6_AfterDate /\ Message(c, "07:30", 1)) => new = C6_AfterTime
          /\ (old = C6_AfterTime /\ Message(c, "Berlin, Germany", 1)) => new = C6_AfterPlace
          /\ (old = C6_AfterPlace /\ Message(c, "Europe/Berlin", 1)) => new = C6_AfterTz
          /\ (old = C6_AfterTz /\ Callback(c, "topic:general")) => new = C6_AfterTopic]_vars

\* the fifth event was handled: the topic press in ASK_TOPIC left the session
\* in ASK_FREEFORM with all six fields set
C6_Witness ==
  /\ HasSession(1) /\ Stored(1) = C6_AfterTopic
  /\ done.from = "ASK_TOPIC" /\ done.log = <<"answer_callback", "send:ask_question">>

\* the calls and messages of a question that is answered
AnsweredLog == <<"geocode", "chart", "openai", "send:answer", "send:ask_topic_again">>

\* C9: when geocoding, chart computation and text generation succeed, the
\* answer is sent, the session moves to ASK_TOPIC and its data is left as it
\* is; a topic press in ASK_TOPIC then leads back to ASK_FREEFORM with date,
\* time, city, country and timezone unchanged, so the two states alternate
\* over the same birth data.
C9_AnswerKeepsBirthData ==
  [][/\ \A h \in Slots :
          /\ OpenaiReturn(h, "ok") =>
               handlers'[h].pc = "send_answer" /\ heap' = heap
          /\ (handlers[h].pc = "send_answer" /\ handlers' # handlers) =>
               LET c == handlers[h].chat
               IN /\ handlers'[h] = Idle
                  /\ done' = Response(Some(c), "ASK_FREEFORM", AnsweredLog, "ok")
                  /\ heap'[SESSIONS'[c]] = [Stored(c) EXCEPT !.state = "ASK_TOPIC"]
     /\ \A c \in DOMAIN SESSIONS, data \in {"topic:general", "topic:bogus"} :
          (Stored(c).state = "ASK_TOPIC" /\ Callback(c, data)) =>
            LET old == Stored(c)
                new == heap'[SESSIONS'[c]]
            IN /\ new.state = "ASK_FREEFORM"
               /\ new.date = old.date /\ new.time = old.time /\ new.city = old.city
               /\ new.country = old.country /\ new.tz = old.tz]_vars

\* a question was answered and the session is back in ASK_TOPIC with its data
C9_Witness ==
  /\ HasSession(1) /\ done.log = AnsweredLog /\ done.result = "ok"
  /\ Stored(1).state = "ASK_TOPIC"
  /\ Stored(1).date = Some("2024-02-29") /\ Stored(1).time = Some("07:30")
  /\ Stored(1).city = Some("Berlin") /\ Stored(1).country = Some("Germany")
  /\ Stored(1).tz = Some("Europe/Berlin") /\ Stored(1).lat # None

\* the calls and messages of a question whose place is not found
MissLog == <<"geocode", "send:geo_miss">>

\* a session that has been through the whole collection
Complete(d) ==
  /\ d.date # None /\ d.time # None /\ d.city # None
  /\ d.country # None /\ d.tz # None /\ d.topic # None

\* the regression itself: geocoding returns nothing, the notice is sent, the
\* state becomes ASK_CITY, nothing else is written and neither chart
\* computation nor text generation is called
C7_Regression ==
  \A h \in Slots :
    /\ GeocodeReturn(h, None, "ok") =>
         handlers'[h].pc = "send_miss" /\ heap' = heap
    /\ (handlers[h].pc = "send_miss" /\ handlers' # handlers) =>
         LET c == handlers[h].chat
         IN /\ handlers'[h] = Idle
            /\ done' = Response(Some(c), "ASK_FREEFORM", MissLog, "ok")
            /\ heap'[SESSIONS'[c]] = [Stored(c) EXCEPT !.state = "ASK_CITY"]

\* the places entered as one text with two tokens, and as one token
TwoTokenPlaces ==
  {<<"Berlin, Germany", "Berlin", "Germany">>, <<"Europe/Berlin", "Europe", "Berlin">>,
   <<"Mars/Phobos", "Mars", "Phobos">>}
OneTokenPlaces == {"2024-02-29", "29.02.2024", "2024-13-40", "07:30", "Berlin"}

\* C7 as claimed: after the regression, the next place text taken in ASK_CITY
\* replaces both the city and the country of the failed attempt with values
\* entered in that text, and leaves date and time as they were.
C7_PlaceEntryReplacesBoth ==
  [][/\ C7_Regression
     /\ \A c \in DOMAIN SESSIONS, raw \in Texts :
          (Stored(c).state = "ASK_CITY" /\ Complete(Stored(c)) /\ AskCity(c, raw)) =>
            LET new == heap'[SESSIONS'[c]]
                entered == {Some(Strip(p)) : p \in {T(raw).text} \cup
                              {Split(Replace(T(raw).text, "/", ","), ",")[i] :
                                 i \in 1..Len(Split(Replace(T(raw).text, "/", ","), ","))}}
            IN /\ new.city \in entered /\ new.country \in entered
               /\ new.date = Stored(c).date /\ new.time = Stored(c).time]_vars

\* C7, amended: after the regression, a place text with two tokens replaces
\* city and country at once (state ASK_TZ); a text with one token replaces
\* the city only and keeps the country of the failed attempt until the text
\* taken in ASK_COUNTRY replaces it; date and time stay as they were.
C7_PlaceEntryReplacesInSteps ==
  [][/\ C7_Regression
     /\ \A c \in DOMAIN SESSIONS :
          LET old == Stored(c)
              new == heap'[SESSIONS'[c]]
          IN /\ \A p \in TwoTokenPlaces :
                  (old.state = "ASK_CITY" /\ old.city # None /\ Message(c, p[1], 1)) =>
                    new = [old EXCEPT !.city = Some(p[2]), !.country = Some(p[3]),
                                      !.state = "ASK_TZ"]
             /\ \A raw \in OneTokenPlaces :
                  (old.state = "ASK_CITY" /\ old.city # None /\ Message(c, raw, 1)) =>
                    new = [old EXCEPT !.city = Some(raw), !.state = "ASK_COUNTRY"]
             /\ \A raw \in OneTokenPlaces \cup {p[1] : p \in TwoTokenPlaces} :
                  (old.state = "ASK_COUNTRY" /\ Message(c, raw, 1)) =>
                    new = [old EXCEPT !.country = Some(raw), !.state = "ASK_TZ"]]_vars

\* after a miss the session is in ASK_CITY with the data of the failed attempt
C7_Witness ==
  /\ HasSession(1) /\ done.log = MissLog /\ done.result = "ok"
  /\ Stored(1).state = "ASK_CITY" /\ Complete(Stored(1))
  /\ Stored(1).city = Some("Berlin") /\ Stored(1).country = Some("Germany")

\* the calls and messages of a question whose chart cannot be computed
ChartErrorLog == <<"geocode", "chart", "send:chart_error">>

\* the failure itself: the error message is sent, text generation is not
\* called, the state stays ASK_FREEFORM and only the coordinates are written
C8_Failure ==
  \A h \in Slots, coords \in Coords \ {None} :
    (GeocodeReturn(h, coords, "fail") /\ ~DtLocalRaises(heap[handlers[h].sess])) =>
      LET c == handlers[h].chat
      IN /\ handlers'[h] = Idle
         /\ done' = Response(Some(c), "ASK_FREEFORM", ChartErrorLog, "ok")
         /\ heap'[SESSIONS'[c]] = [Stored(c) EXCEPT !.lat = Some(coords[1]),
                                                   !.lon = Some(coords[2])]
         /\ heap'[SESSIONS'[c]].state = "ASK_FREEFORM"

\* C8 as claimed: after a chart failure every later question fails the same
\* way (until /reset or /start): in a session that has all its data, the
\* question handled next ends with the chart error again.
C8_EveryLaterQuestionFails ==
  [][/\ C8_Failure
     /\ \A h \in Slots :
          (/\ handlers[h].pc # "idle" /\ handlers'[h] = Idle
           /\ Complete(heap[handlers[h].sess])
           /\ done.log = ChartErrorLog /\ done.chat = Some(handlers[h].chat))
          => done'.log = ChartErrorLog]_vars

\* C8, amended: a chart failure sends the error message, calls no text
\* generation, keeps the state ASK_FREEFORM and writes only latitude and
\* longitude, so nothing is repaired; while the stored timezone is not a
\* recognised identifier, every question that gets as far as the chart
\* computation fails in it again.
C8_FailureRepairsNothing ==
  [][/\ C8_Failure
     /\ \A h \in Slots, coords \in Coords \ {None}, chart \in {"ok", "fail"} :
          LET d == heap[handlers[h].sess]
          IN (/\ GeocodeReturn(h, coords, chart)
              /\ ~DtLocalRaises(d)
              /\ (d.tz = None \/ d.tz \notin {Some("Europe/Berlin"), Some("UTC")}))
             => done'.log = ChartErrorLog /\ heap'[handlers[h].sess].tz = d.tz]_vars

\* a question failed on the unrecognised timezone of a complete session
C8_Witness ==
  /\ HasSession(1) /\ done.log = ChartErrorLog /\ done.result = "ok"
  /\ Stored(1).state = "ASK_FREEFORM" /\ Complete(Stored(1))
  /\ Stored(1).tz = Some("Mars/Phobos") /\ Stored(1).lat # None

\* C11: every update is handled to the end and acknowledged: no handler is
\* left by an exception, whatever the state, the text and the outcome of the
\* external calls.
C11_EveryEventAcknowledged == done.result \in {"none", "ok"}

\* C12: when text generation is unavailable while a question is processed in
\* ASK_FREEFORM (no API key, or the call raises), the user is sent a notice,
\* the handler ends normally without calling again, and the session stays in
\* ASK_FREEFORM.
C12_UnavailableGenerationIsAnnounced ==
  [][/\ \A c \in DOMAIN SESSIONS, raw \in Texts :
          (Stored(c).state = "ASK_FREEFORM" /\ OPENAI_API_KEY = "" /\ Plain(raw)
           /\ Message(c, raw, 1))
          => /\ done' = Response(Some(c), "ASK_FREEFORM", <<"send:no_key">>, "ok")
             /\ heap' = heap /\ handlers' = handlers
     /\ \A h \in Slots :
          OpenaiReturn(h, "raise") =>
            /\ handlers'[h] = Idle
            /\ done'.result = "ok"
            /\ StartsWith(done'.log[Len(done'.log)], "send:")
            /\ Len(SelectSeq(done'.log, LAMBDA t : t = "openai")) = 1
            /\ heap'[handlers[h].sess].state = "ASK_FREEFORM"]_vars

\* the topics of TOPIC_KEYBOARD
TopicValues == {"relationships", "career", "money", "self", "general"}

\* C13: the topic of every session dict is unset or one of relationships,
\* career, money, self, general, whatever data a button press carries.
C13_TopicIsOneOfFive ==
  \A id \in DOMAIN heap :
    heap[id].topic = None \/ \E t \in TopicValues : heap[id].topic = Some(t)

\* the number of places of s that hold the character c
CountOf(s, c) == Cardinality({i \in 1..Len(s) : Ch(s, i) = c})

\* C14: the timezone step takes a text exactly when it holds exactly one "/"
\* and no whitespace character; every other text (no slash, two slashes or
\* more, any whitespace) leaves the session as it is, in ASK_TZ with the
\* timezone unset.
C14_TimezoneExactlyOneSlash ==
  [][\A c \in DOMAIN SESSIONS, raw \in StepTexts :
       AskTz(c, raw) =>
         LET text == T(raw).text
             old  == Stored(c)
             new  == heap'[SESSIONS'[c]]
         IN IF CountOf(text, "/") = 1 /\ \A i \in 1..Len(text) : ~IsSpace(Ch(text, i))
            THEN new = [old EXCEPT !.tz = Some(text), !.state = "ASK_TOPIC"]
            ELSE new = old /\ new.state = "ASK_TZ" /\ new.tz = None]_vars

\* C17: in ASK_CITY the text is split on "," and "/" into trimmed, non-empty
\* tokens; with two tokens the city is the first, the country the second and
\* the state becomes ASK_TZ; otherwise only the city is set, to the one token
\* and so free of separators, the country is left as it is and the state
\* becomes ASK_COUNTRY.
C17_PlaceIsSplitIntoTokens ==
  [][\A c \in DOMAIN SESSIONS, raw \in StepTexts :
       AskCity(c, raw) =>
         LET toks == Parts(T(raw).text)
             old  == Stored(c)
             new  == heap'[SESSIONS'[c]]
         IN IF Len(toks) >= 2
            THEN new = [old EXCEPT !.city = Some(toks[1]), !.country = Some(toks[2]),
                                   !.state = "ASK_TZ"]
            ELSE /\ new.state = "ASK_COUNTRY"
                 /\ new.country = old.country
                 /\ new.city # None
                 /\ ~Contains(new.city[1], ",") /\ ~Contains(new.city[1], "/")
                 /\ Len(toks) = 1 => new.city = Some(toks[1])
                 /\ new = [old EXCEPT !.city = new.city, !.state = "ASK_COUNTRY"]]_vars

\* what the time parser makes of the written-out times and of the texts that
\* are no times
C15_OnUnpaddedTexts ==
  LET r == call.ret[1]
  IN /\ \A g \in TimeCases :
          call.arg = RenderTime(g) =>
            IF g.h <= 23 /\ g.m <= 59
            THEN r = [kind |-> "time", h |-> g.h, m |-> g.m]
            ELSE r = NoTime
     /\ call.arg \in NotTimes => r = NoTime

\* C15 as claimed: the time parser accepts a string exactly when the string is
\* HH:MM, two digits each, HH in 00..23 and MM in 00..59, and returns (HH, MM);
\* every other string is rejected, HH = 24, MM = 60 and a time with whitespace
\* around it included.
C15_AcceptsExactlyHHMM ==
  (call.fn = "parse_time" /\ call.ret # None) =>
    /\ C15_OnUnpaddedTexts
    /\ call.arg \in PaddedTimes => call.ret[1] = NoTime

\* C15, amended: the time parser accepts a string exactly when the string
\* without the whitespace around it is HH:MM, two digits each, HH in 00..23 and
\* MM in 00..59, and returns (HH, MM); every other string is rejected, HH = 24
\* and MM = 60 included.
C15_AcceptsStrippedHHMM ==
  (call.fn = "parse_time" /\ call.ret # None) =>
    /\ C15_OnUnpaddedTexts
    /\ call.arg \in PaddedTimes => call.ret[1] = [kind |-> "time", h |-> 7, m |-> 30]

\* the parser has been applied to a time with whitespace around it
C15_Witness ==
  /\ call.fn = "parse_time" /\ call.arg = " 07:30"
  /\ call.ret = Some([kind |-> "time", h |-> 7, m |-> 30])

\* C16: sign placement is total and periodic: for every longitude L, negative
\* or 360 and more included, the sign is the one of index floor(L/30) mod 12,
\* the value within the sign lies in [0, 30), and the placement of L is the
\* placement of L + 360.
C16_SignPlacementPeriodic ==
  (call.fn = "deg_to_sign" /\ call.ret # None) =>
    LET r == call.ret[1]
    IN /\ r.sign = signs[((call.arg \div Thirty) % 12) + 1]
       /\ 0 <= r.within /\ r.within < Thirty
       /\ r = deg_to_sign(FAdd(call.arg, 360 * Scale))

\* C18: a /reset or /start handled while a question of the same chat is
\* suspended on an external call stores a fresh dict that the suspended
\* handler does not hold and leaves that handler suspended; when the handler
\* resumes and finishes, none of its writes (latitude and longitude, state
\* ASK_CITY or ASK_TOPIC) reaches the stored session, which stays as it was:
\* in ASK_DATE with every data field unset.
C18_ResetOutlivesSuspendedHandler ==
  [][/\ \A c \in ConcUsers, raw \in {"/start", "/reset"} :
          Message(c, raw, FirstFree) =>
            /\ Blank(heap'[SESSIONS'[c]], "ASK_DATE")
            /\ handlers' = handlers
            /\ \A h \in Busy(handlers) : handlers[h].sess # SESSIONS'[c]
     /\ \A h \in Busy(handlers) :
          LET c == handlers[h].chat
          IN (handlers'[h] # handlers[h] /\ handlers[h].sess # SESSIONS[c])
             => SESSIONS' = SESSIONS /\ heap'[SESSIONS'[c]] = heap[SESSIONS[c]]]_vars

\* a question was answered after the reset of its chat, and the stored
\* session is the fresh one
C18_Witness ==
  /\ Busy(handlers) = {}
  /\ done = Response(Some(1), "ASK_FREEFORM", AnsweredLog, "ok")
  /\ HasSession(1) /\ Blank(Stored(1), "ASK_DATE")

\* C19: the handlers of one chat are not serialised: a question begins
\* whenever the dict is in ASK_FREEFORM and writes nothing before its first
\* await, so a second question of the chat begins on the same dict; each of
\* the two goes through geocoding, chart and text generation and is answered,
\* even when the other has already moved the dict to ASK_TOPIC; handled one
\* after the other, the second text finds ASK_TOPIC and gets the fallback only.
C19_ConcurrentQuestionsBothAnswered ==
  [][/\ \A h \in Slots :
          (handlers[h] = Idle /\ handlers'[h] # Idle) =>
            /\ handlers'[h].pc = "geocode"
            /\ heap[handlers'[h].sess].state = "ASK_FREEFORM"
            /\ heap' = heap
     /\ \A h \in Busy(handlers) :
          (handlers[h].pc = "send_answer" /\ handlers'[h] # handlers[h]) =>
            /\ handlers[h].log = <<"geocode", "chart", "openai">>
            /\ done' = Response(Some(handlers[h].chat), "ASK_FREEFORM", AnsweredLog, "ok")
            /\ handlers[h].sess \in DOMAIN heap' => heap'[handlers[h].sess].state = "ASK_TOPIC"
     /\ \A c \in DOMAIN SESSIONS, raw \in ConcTexts :
          (Stored(c).state = "ASK_TOPIC" /\ Plain(raw) /\ Message(c, raw, FirstFree)) =>
            /\ done' = Response(Some(c), "ASK_TOPIC", <<"send:lost">>, "ok")
            /\ heap' = heap /\ handlers' = handlers]_vars

\* since the topic was selected in ASK_TOPIC no handler has ended, and two
\* questions of chat 1 are in flight on the stored dict, both through
\* geocoding, chart and text generation and about to be answered
C19_Witness ==
  /\ done = Response(Some(1), "ASK_TOPIC", <<"answer_callback", "send:ask_question">>, "ok")
  /\ HasSession(1) /\ Stored(1).state = "ASK_FREEFORM"
  /\ \A h \in {1, 2} :
       /\ handlers[h].pc = "send_answer" /\ handlers[h].chat = 1
       /\ handlers[h].sess = SESSIONS[1]
       /\ handlers[h].log = <<"geocode", "chart", "openai">>

\* C20: no two chats are stored with the same dict, and an update of one chat
\* (a button press, a text, /start and /reset and first contact included, or
\* the resumption of a question of that chat) leaves the stored session of
\* every other chat as it was.
C20_SessionsAreIndependent ==
  [][/\ \A c1, c2 \in DOMAIN SESSIONS' : c1 # c2 => SESSIONS'[c1] # SESSIONS'[c2]
     /\ \A c \in TwoUsers :
          (\/ \E data \in ConcCallbackData : Callback(c, data)
           \/ \E raw \in ConcTexts : Message(c, raw, FirstFree)
           \/ \E h \in Busy(handlers) : handlers[h].chat = c /\ handlers'[h] # handlers[h])
          => \A c2 \in DOMAIN SESSIONS \ {c} :
               c2 \in DOMAIN SESSIONS' /\ heap'[SESSIONS'[c2]] = heap[SESSIONS[c2]]]_vars

\* chat 2 was reset while a question of chat 1 was suspended on text
\* generation: chat 1's session has its data and coordinates, chat 2's is blank
C20_Witness ==
  /\ handlers[1].pc = "openai" /\ handlers[1].chat = 1
  /\ done = Response(Some(2), "ASK_FREEFORM", <<"send:reset">>, "ok")
  /\ HasSession(1) /\ Complete(Stored(1)) /\ Stored(1).lat # None
  /\ HasSession(2) /\ Blank(Stored(2), "ASK_DATE")

====
